---- MODULE Spec2Model ----
(***************************************************************************)
(* State-machine model of the QR code generator (TFro3/qrCodeGenerator).   *)
(*                                                                         *)
(* JavaScript runs one task at a time: a handler runs without interruption *)
(* until it suspends at an operation completed by a later task (an image   *)
(* load, a FileReader read, the GIF encoder's workers, a timer).  An await *)
(* of an already-settled promise resumes in a microtask, before any other  *)
(* event is dispatched.  Every action below is therefore one run of code   *)
(* between two such suspension points.                                     *)
(*                                                                         *)
(* The mutable program state is gathered in the record S; a handler is an  *)
(* operator from such a record to the record after it ran, so that the     *)
(* calls one handler makes compose as the code composes them.              *)
(***************************************************************************)
EXTENDS Integers, Sequences, FiniteSets, TLC

VARIABLES
    ui,            \* form controls read by validateInput / getConfig
    loading,       \* loading indicator visible, generate button disabled
    updateTimeout, \* number of pending debounce timers of bindEvents
    app,           \* QRCodeApp.state: currentLogo, isAnimatedGIF, animatedGIFBlob
    currentCanvas, \* uiController.state.currentCanvas (a canvas reference)
    display,       \* what the page shows: the placeholder, a canvas copy, a GIF
    genCanvas,     \* pixels of QRGenerator.canvas, the one canvas every render reuses
    inv,           \* the generateQR invocations in flight, by slot
    upl,           \* the handleLogoUpload invocation in flight
    libs,          \* window.gifuct / window.GIF present
    notice,        \* the message the last step gave to showError, if any
    called,        \* whether the last step called generateQR, and its verdict
    lastDone,      \* summary of the generateQR invocation that returned last
    tn,            \* inputs and results of calculateTypeNumber runs (SpecType)
    rc,            \* a renderToCanvas call: matrix, options, canvas (SpecRender)
    ov,            \* an addLogoOverlay call: arguments, canvases, result (SpecOverlay)
    pg,            \* the progress messages of one generateAnimatedQR run (SpecProgress)
    fl,            \* the canvas objects of one generateAnimatedQR frame loop (SpecFrames)
    events         \* number of user events handled so far

vars == <<ui, loading, updateTimeout, app, currentCanvas, display,
          genCanvas, inv, upl, libs, notice, called, lastDone, tn, rc, ov, pg, fl,
          events>>

\* ---------------------------------------------------------------- bounds

\* Number of generateQR invocations that may be in flight at once.
NSlots == 2
\* Largest number of frames of an uploaded GIF.
MaxFrames == 2
\* Number of user events (clicks, key presses, edits, file choices) of a run.
MaxEvents == 4
\* Number of user events of a run checked under fairness.
LiveEvents == 3
\* Number of user events of a run that starts with a QR code on display.
ShownEvents == 3

Slots == 1..NSlots

\* ------------------------------------------------------ program constants

MaxTextLength == 2953
MaxTypeNumber == 40
FallbackTypeNumber == 10
DefaultDelay == 100

Levels == {"L", "M", "Q", "H"}
Styles == {"squares", "dots", "rounded"}

\* ------------------------------------------------------------- null values

NULL == [kind |-> "null"]

\* ----------------------------------------------------------------- inputs

\* A value of the text field: core characters between pad characters of
\* leading/trailing white space.  String.trim() keeps the core.
InputValues ==
    { [core |-> 0,    pad |-> 0],
      [core |-> 1,    pad |-> 0],
      [core |-> 2953, pad |-> 1],
      [core |-> 2954, pad |-> 0] }

RawLength(v) == v.core + v.pad

Trim(v) == v.core

\* The correction levels and styles the modelled user picks among.
LevelChoices == {"L", "H"}
StyleChoices == {"squares", "dots"}

\* Files the user can pick in the file dialog.
GifFrameCounts == {0, MaxFrames}

\* Their sizes sit on both sides of the two limits of validateImageFile.
Files ==
    { [name |-> "logo.png", type |-> "image/png", size |-> 5242880, frames |-> 0],
      [name |-> "big.png", type |-> "image/png", size |-> 5242881, frames |-> 0],
      [name |-> "logo.bmp", type |-> "image/bmp", size |-> 1000, frames |-> 0],
      [name |-> "notes.txt", type |-> "text/plain", size |-> 1000, frames |-> 0],
      [name |-> "big.gif", type |-> "image/gif", size |-> 104857601, frames |-> MaxFrames] }
    \cup { [name |-> "anim.gif", type |-> "image/gif",
             size |-> IF n = 0 THEN 5242881 ELSE 104857600, frames |-> n] :
             n \in GifFrameCounts }

PresetIcons == {"assets/icons/github.svg"}

\* ------------------------------------------------- UIController (pure part)

\* A validateInput whose length test is ">=": 2953 characters are refused.
ValidateInputExclusive(u) ==
    LET text == Trim(u.qrInput) IN
    IF text = 0
    THEN [valid |-> FALSE, error |-> "Please enter a URL or text"]
    ELSE IF text >= MaxTextLength
         THEN [valid |-> FALSE, error |-> "Text is too long"]
         ELSE [valid |-> TRUE, error |-> "none"]

\* UIController.validateInput: the trimmed text must be non-empty and at most
\* 2953 characters long.
ValidateInput(u) ==
    LET text == Trim(u.qrInput) IN
    IF text = 0
    THEN [valid |-> FALSE, error |-> "Please enter a URL or text"]
    ELSE IF text > MaxTextLength
         THEN [valid |-> FALSE, error |-> "Text is too long"]
         ELSE [valid |-> TRUE, error |-> "none"]

\* UIController.getConfig: the text is the trimmed field value (its length
\* stands for it); style, size, colours, transparency and margin do not steer
\* the application flow and are left to the renderer's model.
GetConfig(u) ==
    [text |-> Trim(u.qrInput),
     errorCorrection |-> u.errorCorrection]

\* ------------------------------------------------------------ QRGenerator

\* The encoding library's byte capacity of the largest symbol (type 40).
MaxCapacity(level) ==
    CASE level = "L" -> 2953
      [] level = "M" -> 2331
      [] level = "Q" -> 1663
      [] level = "H" -> 1273

\* Capacity of type t at a level: the library's table is outside the
\* repository; it grows with t and reaches MaxCapacity at type 40.
Capacity(t, level) == (MaxCapacity(level) * t) \div MaxTypeNumber

\* qrcode(typeNumber, level); addData(text); make(): throws when the text
\* does not fit the symbol.
QrMake(typeNumber, level, text) == text <= Capacity(typeNumber, level)

\* The loop of calculateTypeNumber from typeNumber on; attempts counts the
\* encodings tried.
RECURSIVE ProbeFrom(_, _, _)
ProbeFrom(text, level, typeNumber) ==
    IF typeNumber > MaxTypeNumber
    THEN [typeNumber |-> FallbackTypeNumber, attempts |-> typeNumber - 1]
    ELSE IF QrMake(typeNumber, level, text)
         THEN [typeNumber |-> typeNumber, attempts |-> typeNumber]
         ELSE ProbeFrom(text, level, typeNumber + 1)

\* A calculateTypeNumber whose loop starts at type 2.
CalculateTypeNumberFromTwo(text, level) == ProbeFrom(text, level, 2)

\* QRGenerator.calculateTypeNumber
CalculateTypeNumber(text, level) == ProbeFrom(text, level, 1)

\* What renderToCanvas leaves on the generator's canvas, named by what it
\* was rendered from; no overlay is on it.
QrSurface(config, typeNumber) ==
    [blank |-> FALSE, config |-> config, typeNumber |-> typeNumber,
     mask |-> "none", logo |-> NULL]

BlankSurface ==
    [blank |-> TRUE, config |-> NULL, typeNumber |-> 0, mask |-> "none", logo |-> NULL]

\* A generate that renders whatever make() says.
GenerateUnchecked(config) ==
    IF config.text = 0
    THEN [ok |-> FALSE, error |-> "Text is required", surface |-> BlankSurface]
    ELSE [ok |-> TRUE, error |-> "none",
          surface |-> QrSurface(config,
                        CalculateTypeNumber(config.text, config.errorCorrection).typeNumber)]

\* QRGenerator.generate: fails on an empty text and when make() throws for
\* the chosen type number; only then does it render.
Generate(config) ==
    IF config.text = 0
    THEN [ok |-> FALSE, error |-> "Text is required", surface |-> BlankSurface]
    ELSE LET typeNumber == CalculateTypeNumber(config.text, config.errorCorrection).typeNumber IN
         IF ~QrMake(typeNumber, config.errorCorrection, config.text)
         THEN [ok |-> FALSE, error |-> "code length overflow", surface |-> BlankSurface]
         ELSE [ok |-> TRUE, error |-> "none", surface |-> QrSurface(config, typeNumber)]

\* --------------------------------------------------------- ImageProcessor

MB == 1024 * 1024

SupportedFormats ==
    {"image/png", "image/jpeg", "image/jpg", "image/svg+xml", "image/webp", "image/gif"}

IsImageType(type) ==
    type \in SupportedFormats \cup {"image/bmp"}

\* A validateImageFile with the 5MB limit for every type.
ValidateImageFileOneLimit(file) ==
    LET errors == (IF IsImageType(file.type) THEN {} ELSE {"File must be an image"})
                  \cup (IF file.size > 5 * MB THEN {"File size"} ELSE {})
                  \cup (IF file.type \in SupportedFormats THEN {} ELSE {"Unsupported image format"})
    IN [valid |-> errors = {}, errors |-> errors]

\* ImageProcessor.validateImageFile with maxSizeBytes = null.
ValidateImageFile(file) ==
    LET maxSizeBytes == IF file.type = "image/gif" THEN 100 * MB ELSE 5 * MB
        errors == (IF IsImageType(file.type) THEN {} ELSE {"File must be an image"})
                  \cup (IF file.size > maxSizeBytes THEN {"File size"} ELSE {})
                  \cup (IF file.type \in SupportedFormats THEN {} ELSE {"Unsupported image format"})
    IN [valid |-> errors = {}, errors |-> errors]

\* Logo sources held in state.currentLogo.
GifDataURL(file) == [kind |-> "gif", name |-> file.name, frames |-> file.frames]
StillDataURL(file) == [kind |-> "still", name |-> file.name, frames |-> 0]
IconPath(icon) == [kind |-> "preset", name |-> icon, frames |-> 0]
FrameDataURL(frame) == [kind |-> "frame", name |-> "frame", frames |-> frame.imageData]

\* Delay gifuct reports for frame i of an uploaded GIF; 0 stands for a
\* frame without a delay.
RawDelay(i) == IF i = 1 THEN 0 ELSE 30 * i

\* gifuct.decompressFrames on the bytes of a data URL.
RawFrames(logo) == [i \in 1..logo.frames |-> [patch |-> i, delay |-> RawDelay(i)]]

\* A parseGIF that answers an empty decode with one blank frame.
ParseGIFBlankFrame(logo, lib) ==
    IF ~lib.gifuct
    THEN [ok |-> FALSE, error |-> "gifuct-js library not loaded", frames |-> <<>>]
    ELSE IF logo.kind = "preset"
    THEN [ok |-> FALSE, error |-> "Invalid data URL format", frames |-> <<>>]
    ELSE IF logo.kind # "gif"
    THEN [ok |-> FALSE, error |-> "not a GIF", frames |-> <<>>]
    ELSE [ok |-> TRUE, error |-> "none",
          frames |-> [i \in 1..(IF logo.frames = 0 THEN 1 ELSE logo.frames) |->
                        [imageData |-> i,
                         delay |-> IF i > Len(RawFrames(logo)) \/ RawFrames(logo)[i].delay = 0
                                   THEN DefaultDelay
                                   ELSE RawFrames(logo)[i].delay]]]

\* ImageProcessor.parseGIF
ParseGIF(logo, lib) ==
    IF ~lib.gifuct
    THEN [ok |-> FALSE, error |-> "gifuct-js library not loaded", frames |-> <<>>]
    ELSE IF logo.kind = "preset"
    THEN [ok |-> FALSE, error |-> "Invalid data URL format", frames |-> <<>>]
    ELSE IF logo.kind # "gif"
    THEN [ok |-> FALSE, error |-> "not a GIF", frames |-> <<>>]
    ELSE IF Len(RawFrames(logo)) = 0
    THEN [ok |-> FALSE, error |-> "No frames found in GIF", frames |-> <<>>]
    ELSE [ok |-> TRUE, error |-> "none",
          frames |-> [i \in 1..Len(RawFrames(logo)) |->
                        [imageData |-> RawFrames(logo)[i].patch,
                         delay |-> IF RawFrames(logo)[i].delay = 0
                                   THEN DefaultDelay
                                   ELSE RawFrames(logo)[i].delay]]]

\* addLogoOverlay up to its await: a new canvas holding a copy of the QR canvas.
OverlayCopy(qrSurface) == qrSurface

\* addLogoOverlay after the logo loaded: mask, then logo, on the new canvas.
OverlayDraw(out, logoSrc) ==
    [out EXCEPT !.mask = "drawn", !.logo = logoSrc]

\* ------------------------------------------------------- the program state

S ==
    [ui |-> ui, loading |-> loading, updateTimeout |-> updateTimeout,
     app |-> app, currentCanvas |-> currentCanvas,
     display |-> display, genCanvas |-> genCanvas, inv |-> inv, upl |-> upl,
     libs |-> libs, notice |-> "none", called |-> "none", lastDone |-> lastDone]

\* The step that takes the program to state t.  notice and called describe
\* the step itself: the alert it raised and the generateQR call it made.
Reaches(t) ==
    /\ ui' = t.ui
    /\ loading' = t.loading
    /\ updateTimeout' = t.updateTimeout
    /\ app' = t.app
    /\ currentCanvas' = t.currentCanvas
    /\ display' = t.display
    /\ genCanvas' = t.genCanvas
    /\ inv' = t.inv
    /\ upl' = t.upl
    /\ libs' = t.libs
    /\ notice' = t.notice
    /\ called' = t.called
    /\ lastDone' = t.lastDone
    /\ UNCHANGED <<tn, rc, ov, pg, fl>>

\* A step started by the user: an event of the page.
User(t) == events < MaxEvents /\ Reaches(t) /\ events' = events + 1

\* A step started by a completion: a timer, a load, a read, the encoder.
Becomes(t) == Reaches(t) /\ UNCHANGED events

\* Canvas references: the generator's shared canvas, or a canvas created by
\* one addLogoOverlay call and held by nobody else.
GenRef == [kind |-> "gen", content |-> BlankSurface]
OwnRef(content) == [kind |-> "own", content |-> content]

Deref(s, ref) == IF ref.kind = "gen" THEN s.genCanvas ELSE ref.content

\* A generateQR invocation that is not running.
IdleInv ==
    [pc |-> "idle", config |-> NULL, path |-> "none", logo0 |-> NULL,
     fallback |-> FALSE, staticCalls |-> 0, staticConfig |-> NULL,
     staticLogo |-> NULL, logoSrc |-> NULL, out |-> BlankSurface, frames |-> <<>>, i |-> 0,
     qrCanvases |-> <<>>, delays |-> <<>>, gifFrames |-> <<>>, blob |-> NULL]

NoneDone ==
    [path |-> "none", config |-> NULL, logo0 |-> NULL, fallback |-> FALSE,
     staticCalls |-> 0, staticConfig |-> NULL, staticLogo |-> NULL,
     caught |-> FALSE, shown |-> "none"]

IdleUpload == [pc |-> "idle", file |-> NULL]

\* ------------------------------------------------ UIController (effects)

ShowError(s, message) == [s EXCEPT !.notice = message]

ShowLoading(s) == [s EXCEPT !.loading = TRUE]

HideLoading(s) == [s EXCEPT !.loading = FALSE]

\* UIController.displayQR: keeps the reference and copies the pixels to the
\* page's canvas.
DisplayQR(s, canvas) ==
    [s EXCEPT !.currentCanvas = canvas,
              !.display = [kind |-> "canvas", content |-> Deref(s, canvas)]]

\* UIController.displayAnimatedGIF: shows the encoded GIF on the page.
DisplayAnimatedGIF(s, gif) ==
    [s EXCEPT !.display = [kind |-> "gif", content |-> gif]]

\* ------------------------------------------------------------- QRCodeApp

\* generateQR returns: its finally block hides the loading indicator.
Finish(s, p, shown, caught) ==
    [HideLoading(s) EXCEPT
        !.inv[p] = IdleInv,
        !.lastDone = [path |-> s.inv[p].path, config |-> s.inv[p].config,
                      logo0 |-> s.inv[p].logo0, fallback |-> s.inv[p].fallback,
                      staticCalls |-> s.inv[p].staticCalls,
                      staticConfig |-> s.inv[p].staticConfig,
                      staticLogo |-> s.inv[p].staticLogo,
                      caught |-> caught, shown |-> shown]]

\* generateStaticQR from "Display QR code" on, then generateQR's return.
StaticDone(s, p, finalCanvas) ==
    Finish([DisplayQR(s, finalCanvas) EXCEPT !.app.animatedGIFBlob = NULL],
           p, "static", FALSE)

\* generateStaticQR up to its await; an exception of generate() reaches the
\* catch block of generateQR.
GenerateStaticQR(s, p, config) ==
    LET s0 == [s EXCEPT !.inv[p].staticCalls = @ + 1,
                        !.inv[p].staticConfig = config,
                        !.inv[p].staticLogo = s.app.currentLogo]
        g == Generate(config)
    IN  IF ~g.ok
        THEN Finish(ShowError(s0, "Failed to generate QR code"), p, "none", TRUE)
        ELSE LET s1 == [s0 EXCEPT !.genCanvas = g.surface] IN
             IF s1.app.currentLogo # NULL
             THEN [s1 EXCEPT !.inv[p].pc = "staticLoad",
                             !.inv[p].logoSrc = s1.app.currentLogo,
                             !.inv[p].out = OverlayCopy(s1.genCanvas)]
             ELSE StaticDone(s1, p, GenRef)

\* The catch block of generateAnimatedQR: the error is shown and the static
\* generation run with the config generateAnimatedQR was given.
Fallback(s, p) ==
    GenerateStaticQR(
        ShowError([s EXCEPT !.inv[p].fallback = TRUE, !.inv[p].out = BlankSurface,
                            !.inv[p].qrCanvases = <<>>, !.inv[p].delays = <<>>,
                            !.inv[p].gifFrames = <<>>, !.inv[p].blob = NULL],
                  "Failed to process animated GIF"),
        p, s.inv[p].config)

\* A createAnimatedGIF that gives every frame the default delay.
StartEncodeDefaultDelay(s, p) ==
    LET canvases == s.inv[p].qrCanvases
    IN  IF ~s.libs.GIF \/ Len(canvases) = 0
        THEN Fallback(s, p)
        ELSE [s EXCEPT !.inv[p].pc = "encoding",
                       !.inv[p].gifFrames =
                           [k \in 1..Len(canvases) |->
                               [surface |-> canvases[k], delay |-> DefaultDelay]]]

\* createAnimatedGIF up to gif.render(): every canvas is added, copied, with
\* its delay.
StartEncode(s, p) ==
    LET canvases == s.inv[p].qrCanvases
        delays == s.inv[p].delays
    IN  IF ~s.libs.GIF \/ Len(canvases) = 0
        THEN Fallback(s, p)
        ELSE [s EXCEPT !.inv[p].pc = "encoding",
                       !.inv[p].gifFrames =
                           [k \in 1..Len(canvases) |->
                               [surface |-> canvases[k],
                                delay |-> IF delays[k] = 0 THEN DefaultDelay
                                          ELSE delays[k]]]]

\* A frame loop that hands over to the encoder after its first frame.
FrameStartOneFrame(s, p) ==
    LET r == s.inv[p] IN
    IF r.i >= 1
    THEN StartEncode(s, p)
    ELSE LET g == Generate(r.config) IN
         IF ~g.ok
         THEN Fallback(s, p)
         ELSE [s EXCEPT !.genCanvas = g.surface,
                        !.inv[p].pc = "frameLoad",
                        !.inv[p].logoSrc = FrameDataURL(r.frames[r.i + 1]),
                        !.inv[p].out = OverlayCopy(g.surface)]

\* One turn of the frame loop up to the await in addLogoOverlay, or the end
\* of the loop.
FrameStart(s, p) ==
    LET r == s.inv[p] IN
    IF r.i >= Len(r.frames)
    THEN StartEncode(s, p)
    ELSE LET g == Generate(r.config) IN
         IF ~g.ok
         THEN Fallback(s, p)
         ELSE [s EXCEPT !.genCanvas = g.surface,
                        !.inv[p].pc = "frameLoad",
                        !.inv[p].logoSrc = FrameDataURL(r.frames[r.i + 1]),
                        !.inv[p].out = OverlayCopy(g.surface)]

\* A generateAnimatedQR whose library test throws outside its try block.
GenerateAnimatedQRUnguarded(s, p) ==
    IF ~s.libs.gifuct \/ ~s.libs.GIF
    THEN Finish(ShowError(s, "Failed to generate QR code"), p, "none", TRUE)
    ELSE LET parsed == ParseGIF(s.app.currentLogo, s.libs) IN
         IF ~parsed.ok
         THEN Fallback(s, p)
         ELSE FrameStart([s EXCEPT !.inv[p].frames = parsed.frames], p)

\* A generateAnimatedQR without its library test: the absence of a library
\* shows only where the library is used.
GenerateAnimatedQRNoLibCheck(s, p) ==
    LET parsed == ParseGIF(s.app.currentLogo, s.libs) IN
    IF ~parsed.ok
    THEN Fallback(s, p)
    ELSE FrameStart([s EXCEPT !.inv[p].frames = parsed.frames], p)

\* generateAnimatedQR up to its first await.
GenerateAnimatedQR(s, p) ==
    IF ~s.libs.gifuct \/ ~s.libs.GIF
    THEN Fallback(s, p)
    ELSE LET parsed == ParseGIF(s.app.currentLogo, s.libs) IN
         IF ~parsed.ok
         THEN Fallback(s, p)
         ELSE FrameStart([s EXCEPT !.inv[p].frames = parsed.frames], p)

\* generateQR up to its first await.
GenerateQR(s, p) ==
    LET validation == ValidateInput(s.ui) IN
    IF ~validation.valid
    THEN [HideLoading(ShowError(s, validation.error)) EXCEPT
             !.called = "rejected",
             !.lastDone = [NoneDone EXCEPT !.path = "rejected"]]
    ELSE LET s1 == [ShowLoading(s) EXCEPT
                       !.called = "accepted",
                       !.inv[p] = [IdleInv EXCEPT !.pc = "running",
                                                  !.config = GetConfig(s.ui),
                                                  !.logo0 = s.app.currentLogo]]
         IN  IF s1.app.isAnimatedGIF /\ s1.app.currentLogo # NULL
             THEN GenerateAnimatedQR([s1 EXCEPT !.inv[p].path = "animated"], p)
             ELSE GenerateStaticQR([s1 EXCEPT !.inv[p].path = "static"], p,
                                   s1.inv[p].config)

\* "Regenerate QR code if one exists"
Regenerate(s, p) == IF s.currentCanvas # NULL THEN GenerateQR(s, p) ELSE s

\* ----------------------------------------------------------------- steps

Idle(p) == inv[p].pc = "idle"

HasFree == \E p \in Slots : Idle(p)

\* The slot a new invocation takes.
FreeSlot == IF HasFree THEN CHOOSE p \in Slots : Idle(p) /\ \A q \in Slots : Idle(q) => p <= q
            ELSE 1

\* A handler that may call generateQR needs a slot for it.
CanRegenerate == currentCanvas # NULL => HasFree

\* bindEvents: click on the generate button (disabled while loading shows).
ClickGenerate ==
    /\ ~loading
    /\ HasFree
    /\ User(GenerateQR(S, FreeSlot))

\* bindEvents: Enter in the text field.
PressEnter ==
    /\ HasFree
    /\ User(GenerateQR(S, FreeSlot))

\* The user edits the text field.
EditText(v) ==
    /\ ui.qrInput # v
    /\ User([S EXCEPT !.ui.qrInput = v])

\* A debouncedUpdate that leaves the pending timer running.
DebouncedUpdateNoClear(s) == [s EXCEPT !.updateTimeout = @ + 1]

\* debouncedUpdate: clearTimeout(updateTimeout), then a new timer of 300 ms
DebouncedUpdate(s) == [s EXCEPT !.updateTimeout = 1]

\* bindEvents, debouncedUpdate: a change of size, correction level or colour
\* restarts the 300 ms timer.
OptionChange(level) ==
    /\ ui.errorCorrection # level
    /\ User(DebouncedUpdate([S EXCEPT !.ui.errorCorrection = level]))

\* The debounce timer fires.
DebounceFire ==
    /\ updateTimeout > 0
    /\ CanRegenerate
    /\ Becomes(Regenerate([S EXCEPT !.updateTimeout = @ - 1], FreeSlot))

\* bindEvents: the transparent-background checkbox.
ToggleTransparent ==
    /\ CanRegenerate
    /\ User(Regenerate(S, FreeSlot))

\* bindEvents: a style button.
StyleClick(style) ==
    /\ CanRegenerate
    /\ User(Regenerate(S, FreeSlot))

\* handleLogoUpload up to the await of fileToDataURL.
UploadChange(file) ==
    /\ upl.pc = "idle"
    /\ User(IF ~ValidateImageFile(file).valid
               THEN ShowError(S, "Invalid image file")
               ELSE [S EXCEPT !.upl = [pc |-> "reading", file |-> file]])

\* The tail of handleLogoUpload, once state.currentLogo is set.
UploadTail(s) == Regenerate(s, FreeSlot)

\* handleLogoUpload after the file was read: a GIF is kept as it is, any
\* other image goes on to resizeImage.
UploadRead ==
    /\ upl.pc = "reading"
    /\ IF upl.file.type = "image/gif"
       THEN /\ CanRegenerate
            /\ Becomes(UploadTail([S EXCEPT !.app.currentLogo = GifDataURL(upl.file),
                                            !.app.isAnimatedGIF = TRUE,
                                            !.upl = IdleUpload]))
       ELSE Becomes([S EXCEPT !.upl.pc = "resizing"])

\* handleLogoUpload after resizeImage.
UploadResized ==
    /\ upl.pc = "resizing"
    /\ CanRegenerate
    /\ Becomes(UploadTail([S EXCEPT !.app.currentLogo = StillDataURL(upl.file),
                                    !.app.isAnimatedGIF = FALSE,
                                    !.upl = IdleUpload]))

\* The FileReader or the image load of resizeImage fails: the catch block.
UploadFail ==
    /\ upl.pc \in {"reading", "resizing"}
    /\ Becomes(ShowError([S EXCEPT !.upl = IdleUpload], "Failed to upload logo"))

\* handleIconSelect, called by a click on an icon of the picker.  Opening
\* and closing the picker changes nothing the application flow reads.
IconSelect(icon) ==
    /\ CanRegenerate
    /\ User(Regenerate([S EXCEPT !.app.currentLogo = IconPath(icon)], FreeSlot))

\* removeLogo, called by the button shown with the logo preview.
RemoveLogo ==
    /\ app.currentLogo # NULL
    /\ CanRegenerate
    /\ User(Regenerate([S EXCEPT !.app = [currentLogo |-> NULL,
                                             isAnimatedGIF |-> FALSE,
                                             animatedGIFBlob |-> NULL]],
                          FreeSlot))

\* generateStaticQR: the logo of addLogoOverlay loaded.
StaticLoadOK(p) ==
    /\ inv[p].pc = "staticLoad"
    /\ Becomes(StaticDone(S, p, OwnRef(OverlayDraw(inv[p].out, inv[p].logoSrc))))

\* generateStaticQR: the logo failed to load; the catch block shows the QR
\* canvas instead.
StaticLoadFail(p) ==
    /\ inv[p].pc = "staticLoad"
    /\ Becomes(StaticDone(ShowError(S, "Failed to add logo"), p, GenRef))

\* generateAnimatedQR: the frame's image loaded; the frame is collected and
\* the loop goes on.
FrameLoadOK(p) ==
    /\ inv[p].pc = "frameLoad"
    /\ LET r == inv[p]
           finalCanvas == OverlayDraw(r.out, r.logoSrc)
       IN Becomes(FrameStart([S EXCEPT !.inv[p].qrCanvases = Append(@, finalCanvas),
                                       !.inv[p].delays = Append(@, r.frames[r.i + 1].delay),
                                       !.inv[p].i = @ + 1],
                             p))

\* generateAnimatedQR: a frame's image failed to load.
FrameLoadFail(p) ==
    /\ inv[p].pc = "frameLoad"
    /\ Becomes(Fallback(S, p))

\* gif.js reports 'finished'; generateAnimatedQR goes on to blobToDataURL.
EncodeFinished(p) ==
    /\ inv[p].pc = "encoding"
    /\ Becomes([S EXCEPT !.inv[p].pc = "blobRead",
                         !.inv[p].blob = [kind |-> "gif", frames |-> inv[p].gifFrames]])

\* gif.js reports 'error'.
EncodeError(p) ==
    /\ inv[p].pc = "encoding"
    /\ Becomes(Fallback(S, p))

\* blobToDataURL resolved: the blob is stored and the GIF displayed.
BlobReadOK(p) ==
    /\ inv[p].pc = "blobRead"
    /\ Becomes(Finish(DisplayAnimatedGIF([S EXCEPT !.app.animatedGIFBlob = inv[p].blob],
                                         inv[p].blob),
                      p, "animated", FALSE))

\* blobToDataURL rejected.
BlobReadFail(p) ==
    /\ inv[p].pc = "blobRead"
    /\ Becomes(Fallback(S, p))

\* ------------------------------------------------------- specification

InitialUI ==
    [qrInput |-> [core |-> 0, pad |-> 0], errorCorrection |-> "H"]

LibChoices ==
    { [gifuct |-> TRUE, GIF |-> TRUE],
      [gifuct |-> FALSE, GIF |-> TRUE],
      [gifuct |-> TRUE, GIF |-> FALSE] }

NoRun == [pc |-> "idle", text |-> 0, level |-> "L", first |-> NULL, second |-> NULL]

NoRender == [pc |-> "idle"]

NoOverlay == [pc |-> "idle"]

NoProgress == [pc |-> "idle"]

NoFrames == [pc |-> "idle"]

\* The page after construction, with `used` of the MaxEvents user events
\* already spent.
Page(used) ==
    /\ ui = InitialUI
    /\ loading = FALSE
    /\ updateTimeout = 0
    /\ app = [currentLogo |-> NULL, isAnimatedGIF |-> FALSE, animatedGIFBlob |-> NULL]
    /\ currentCanvas = NULL
    /\ display = [kind |-> "placeholder", content |-> NULL]
    /\ genCanvas = BlankSurface
    /\ inv = [p \in Slots |-> IdleInv]
    /\ upl = IdleUpload
    /\ libs \in LibChoices
    /\ notice = "none"
    /\ called = "none"
    /\ lastDone = NoneDone
    /\ events = used

Constructed(used) ==
    /\ Page(used)
    /\ tn = NoRun
    /\ rc = NoRender
    /\ ov = NoOverlay
    /\ pg = NoProgress
    /\ fl = NoFrames

Init == Constructed(0)

Next ==
    \/ ClickGenerate
    \/ PressEnter
    \/ \E v \in InputValues : EditText(v)
    \/ \E level \in LevelChoices : OptionChange(level)
    \/ DebounceFire
    \/ ToggleTransparent
    \/ \E style \in StyleChoices : StyleClick(style)
    \/ \E file \in Files : UploadChange(file)
    \/ UploadRead
    \/ UploadResized
    \/ UploadFail
    \/ \E icon \in PresetIcons : IconSelect(icon)
    \/ RemoveLogo
    \/ \E p \in Slots :
          \/ StaticLoadOK(p)
          \/ StaticLoadFail(p)
          \/ FrameLoadOK(p)
          \/ FrameLoadFail(p)
          \/ EncodeFinished(p)
          \/ EncodeError(p)
          \/ BlobReadOK(p)
          \/ BlobReadFail(p)

Spec == Init /\ [][Next]_vars

\* The code's scheduling: a started image load, file read or encoding run
\* ends with one of its two callbacks, and a set timer fires.
Completes(p) ==
    \/ StaticLoadOK(p) \/ StaticLoadFail(p)
    \/ FrameLoadOK(p) \/ FrameLoadFail(p)
    \/ EncodeFinished(p) \/ EncodeError(p)
    \/ BlobReadOK(p) \/ BlobReadFail(p)

Fairness == \A p \in Slots : WF_vars(Completes(p))

\* The same program with LiveEvents user events left, under fairness.
LiveInit == Constructed(MaxEvents - LiveEvents)

FairSpec == LiveInit /\ [][Next]_vars /\ Fairness

\* The constructed page as a state, with the libraries the page loaded.
StartPage(l) ==
    [ui |-> InitialUI, loading |-> FALSE, updateTimeout |-> 0,
     app |-> [currentLogo |-> NULL, isAnimatedGIF |-> FALSE, animatedGIFBlob |-> NULL],
     currentCanvas |-> NULL,
     display |-> [kind |-> "placeholder", content |-> NULL],
     genCanvas |-> BlankSurface, inv |-> [p \in Slots |-> IdleInv],
     upl |-> IdleUpload, libs |-> l, notice |-> "none", called |-> "none",
     lastDone |-> NoneDone]

\* The page after the user typed v and clicked the generate button.
FirstGenerated(l, v) == GenerateQR([StartPage(l) EXCEPT !.ui.qrInput = v], 1)

\* The same program from the moment its first QR code is on display, with
\* ShownEvents user events left.
ShownInit ==
    /\ \E l \in LibChoices, v \in InputValues :
          LET t == FirstGenerated(l, v) IN
          /\ t.currentCanvas # NULL
          /\ ui = t.ui
          /\ loading = t.loading
          /\ updateTimeout = t.updateTimeout
          /\ app = t.app
          /\ currentCanvas = t.currentCanvas
          /\ display = t.display
          /\ genCanvas = t.genCanvas
          /\ inv = t.inv
          /\ upl = t.upl
          /\ libs = t.libs
          /\ notice = t.notice
          /\ called = t.called
          /\ lastDone = t.lastDone
    /\ events = MaxEvents - ShownEvents
    /\ tn = NoRun
    /\ rc = NoRender
    /\ ov = NoOverlay
    /\ pg = NoProgress
    /\ fl = NoFrames

SpecShown == ShownInit /\ [][Next]_vars

\* --------------------------------------------- QRGenerator.renderToCanvas

\* Lengths on the canvas are measured in hundredths of a cell: cellSize,
\* which the code computes as size / totalModules, is 100 of them.
CellSize == 100

\* A radius of half a cell: neighbouring dots touch.
DotRadiusHalf == CellSize \div 2

\* radius of renderDots, cellSize * 0.45
DotRadius == (CellSize * 45) \div 100

\* borderRadius of renderRounded, cellSize * 0.3
BorderRadius == (CellSize * 30) \div 100

\* Largest module count and quiet zone of the rendered matrices.
MaxModules == 2
MaxMargin == 2

\* The cells of a canvas of `total` cells a side, as <<column, row>>.
Grid(total) == (0..(total - 1)) \X (0..(total - 1))

\* What a cell of the canvas holds: what lies under the ink ("old" for what
\* an earlier use left, "clear" for transparent, "background"), and how much
\* of the cell ink covers ("none", "part", "full") and in which colour.
ClearCell == [base |-> "clear", ink |-> "none", colour |-> "none"]
BackgroundCell == [base |-> "background", ink |-> "none", colour |-> "none"]

\* The fillStyle of a context that was just created or reset.
DefaultFillStyle == "#000000"

\* The canvas and context the constructor creates: nothing is drawn on it.
NewCanvas ==
    [total |-> 0, paint |-> [c \in Grid(0) |-> ClearCell], paths |-> {},
     fillStyle |-> DefaultFillStyle]

\* canvas.width = size; canvas.height = size: the bitmap and the context
\* state are reset.
SetSize(total) ==
    [total |-> total, paint |-> [c \in Grid(total) |-> ClearCell], paths |-> {},
     fillStyle |-> DefaultFillStyle]

\* ctx.clearRect(0, 0, size, size)
ClearRect(canvas) ==
    [canvas EXCEPT !.paint = [c \in DOMAIN canvas.paint |-> ClearCell], !.paths = {}]

\* ctx.fillStyle = backgroundColor; ctx.fillRect(0, 0, size, size): it
\* covers what is there.
FillBackground(canvas) ==
    [canvas EXCEPT !.paint = [c \in DOMAIN canvas.paint |-> BackgroundCell],
                   !.paths = {}, !.fillStyle = "background"]

\* ctx.fillStyle = foregroundColor
SetFillStyle(canvas, colour) == [canvas EXCEPT !.fillStyle = colour]

Max(a, b) == IF a >= b THEN a ELSE b

\* The part of the canvas a path fills shares area with cell c.
Overlaps(shape, c) ==
    LET x0 == c[1] * CellSize
        y0 == c[2] * CellSize
        x1 == x0 + CellSize
        y1 == y0 + CellSize
    IN  IF shape.kind = "circle"
        THEN LET dx == Max(Max(x0 - shape.cx, shape.cx - x1), 0)
                 dy == Max(Max(y0 - shape.cy, shape.cy - y1), 0)
             IN  dx * dx + dy * dy < shape.r * shape.r
        ELSE /\ shape.x < x1 /\ shape.x + shape.w > x0
             /\ shape.y < y1 /\ shape.y + shape.h > y0

\* The filled path covers all of cell c.
Covers(shape, c) ==
    /\ shape.kind = "rect"
    /\ shape.x <= c[1] * CellSize /\ shape.x + shape.w >= (c[1] + 1) * CellSize
    /\ shape.y <= c[2] * CellSize /\ shape.y + shape.h >= (c[2] + 1) * CellSize

\* ctx.fill() / ctx.fillRect of the shapes in the context's fillStyle; paths
\* keeps the shapes filled since the canvas was last wiped.
FillShapes(canvas, shapes) ==
    [canvas EXCEPT !.paths = @ \cup shapes, !.paint =
        [c \in DOMAIN canvas.paint |->
            IF \E sh \in shapes : Covers(sh, c)
            THEN [canvas.paint[c] EXCEPT !.ink = "full", !.colour = canvas.fillStyle]
            ELSE IF \E sh \in shapes : Overlaps(sh, c)
            THEN [canvas.paint[c] EXCEPT !.ink = IF @ = "full" THEN "full" ELSE "part",
                                         !.colour = canvas.fillStyle]
            ELSE canvas.paint[c]]]

\* A renderSquares that leaves a tenth of the cell free on the right and below.
RenderSquaresInset(canvas, qr, margin) ==
    FillShapes(canvas,
        { [kind |-> "rect", x |-> (m[2] + margin) * CellSize,
           y |-> (m[1] + margin) * CellSize,
           w |-> (CellSize * 9) \div 10, h |-> (CellSize * 9) \div 10] :
          m \in qr.dark })

\* renderSquares: one fillRect(x, y, cellSize, cellSize) per dark module.
RenderSquares(canvas, qr, margin) ==
    FillShapes(canvas,
        { [kind |-> "rect", x |-> (m[2] + margin) * CellSize,
           y |-> (m[1] + margin) * CellSize, w |-> CellSize, h |-> CellSize] :
          m \in qr.dark })

\* renderDots: one arc of DotRadius around the cell centre per dark module.
RenderDots(canvas, qr, margin) ==
    FillShapes(canvas,
        { [kind |-> "circle",
           cx |-> (m[2] + margin) * CellSize + CellSize \div 2,
           cy |-> (m[1] + margin) * CellSize + CellSize \div 2,
           r |-> DotRadius] :
          m \in qr.dark })

\* drawRoundedRect: a path inside the rectangle (x, y, width, height) with
\* its corners cut by arcs of the radius.
DrawRoundedRect(x, y, width, height, radius) ==
    [kind |-> "rounded", x |-> x, y |-> y, w |-> width, h |-> height, r |-> radius]

\* renderRounded: one rounded rectangle of the cell's size per dark module.
RenderRounded(canvas, qr, margin) ==
    FillShapes(canvas,
        { DrawRoundedRect((m[2] + margin) * CellSize, (m[1] + margin) * CellSize,
                          CellSize, CellSize, BorderRadius) :
          m \in qr.dark })

\* The switch on options.style.
RenderStyle(canvas, qr, options) ==
    CASE options.style = "dots" -> RenderDots(canvas, qr, options.margin)
      [] options.style = "rounded" -> RenderRounded(canvas, qr, options.margin)
      [] OTHER -> RenderSquares(canvas, qr, options.margin)

\* A renderToCanvas that fills the background after the modules.
RenderToCanvasFillLast(canvas, qr, options) ==
    LET sized == SetSize(qr.moduleCount + options.margin * 2)
        drawn == RenderStyle(SetFillStyle(ClearRect(sized), options.foregroundColor),
                             qr, options)
    IN  IF options.transparentBackground THEN drawn ELSE FillBackground(drawn)

\* A renderToCanvas that neither resizes nor clears the canvas it is given.
RenderToCanvasKeep(canvas, qr, options) ==
    LET filled == IF options.transparentBackground THEN canvas
                  ELSE FillBackground(canvas)
    IN  RenderStyle(SetFillStyle(filled, options.foregroundColor), qr, options)

\* QRGenerator.renderToCanvas on the generator's canvas.
RenderToCanvas(canvas, qr, options) ==
    LET sized == SetSize(qr.moduleCount + options.margin * 2)
        cleared == ClearRect(sized)
        filled == IF options.transparentBackground THEN cleared
                  ELSE FillBackground(cleared)
    IN  RenderStyle(SetFillStyle(filled, options.foregroundColor), qr, options)

\* The matrices, as the module count and the set of dark <<row, col>>.
Matrices ==
    UNION { { [moduleCount |-> n, dark |-> d] :
              d \in SUBSET ((0..(n - 1)) \X (0..(n - 1))) } : n \in 1..MaxModules }

\* The values of options.style: the three styles and one that is none of them.
StyleValues == Styles \cup {"other"}

ForegroundColors == {"#000000", "#cc0000"}

RenderOptions ==
    [style : StyleValues, transparentBackground : BOOLEAN, margin : 0..MaxMargin,
     foregroundColor : ForegroundColors]

\* The matrix of MaxModules a side with every module dark.
FullMatrix ==
    [moduleCount |-> MaxModules,
     dark |-> (0..(MaxModules - 1)) \X (0..(MaxModules - 1))]

\* The generator's canvas before the call: new, or left by an earlier call
\* that drew dots without a quiet zone, in either colour, on either ground.
EarlierCanvases ==
    {NewCanvas}
    \cup { RenderToCanvas(NewCanvas, FullMatrix, o) :
            o \in {x \in RenderOptions : x.style = "dots" /\ x.margin = 0} }

RenderInit ==
    /\ Page(0)
    /\ libs.gifuct /\ libs.GIF
    /\ tn = NoRun
    /\ ov = NoOverlay
    /\ pg = NoProgress
    /\ fl = NoFrames
    /\ \E qr \in Matrices, options \in RenderOptions, canvas \in EarlierCanvases :
          rc = [pc |-> "ready", qr |-> qr, options |-> options,
                before |-> canvas, canvas |-> canvas]

\* renderToCanvas is called.
Render ==
    /\ rc.pc = "ready"
    /\ rc' = [rc EXCEPT !.pc = "rendered",
                        !.canvas = RenderToCanvas(rc.canvas, rc.qr, rc.options)]
    /\ UNCHANGED <<ui, loading, updateTimeout, app, currentCanvas, display,
                   genCanvas, inv, upl, libs, notice, called, lastDone, tn, ov, pg, fl, events>>

RenderNext == Render

SpecRender == RenderInit /\ [][RenderNext]_vars

\* ------------------------------------------ ImageProcessor.addLogoOverlay
\* Lengths are in thousandths of a pixel, so that the halves, fifths and
\* quarters the code computes in floating point are exact integers here.

Unit == 1000

\* the overlay inputs: base side and padding in pixels, logo size in percent
BaseSizes == {200, 300}
Paddings == {0, 10}
LogoSizePercents == {20, 25, 30}
BackgroundColors == {"#FFFFFF", "#eeeeee"}
\* null or undefined where a canvas reference or a string is expected
NoValue == "null"

LogoSources == {NoValue, "", "logo.png"}
LogoImages ==
    {[width |-> 100, height |-> 100], [width |-> 200, height |-> 100],
     [width |-> 100, height |-> 400]}

\* the two definitions of the class in image-processor.js: the first draws on
\* a canvas it creates, the second on the processor's own canvas
Versions == {"own", "shared"}

Falsy(v) == v \in {NoValue, ""}

\* a canvas element: its size and the drawing operations applied, in order
CanvasElement(w, h, layers) == [width |-> w, height |-> h, layers |-> layers]

\* document.createElement('canvas'): 300 x 150, nothing drawn
CreatedCanvas == CanvasElement(300 * Unit, 150 * Unit, <<>>)

\* the generator's canvas after a render of side px pixels
BaseCanvas(px) == CanvasElement(px * Unit, px * Unit, <<[op |-> "qr"]>>)

\* the processor's canvas: as constructed, or holding an earlier overlay
ProcessorCanvases ==
    {CreatedCanvas,
     CanvasElement(200 * Unit, 200 * Unit, <<[op |-> "image", of |-> "gen"]>>)}

\* a target left at the size it had
ResizeKeep(canvas, w, h) == CanvasElement(canvas.width, canvas.height, <<>>)

\* assigning canvas.width / canvas.height resets the bitmap
Resize(canvas, w, h) == CanvasElement(w, h, <<>>)

DrawImage(canvas, id) == [canvas EXCEPT !.layers = Append(@, [op |-> "image", of |-> id])]

\* a mask that is a rectangle whatever the style
DrawLogoBackgroundRect(canvas, x, y, size, padding, backgroundColor, patternStyle) ==
    [canvas EXCEPT !.layers = Append(@,
        [op |-> "fillRect", x |-> x - padding, y |-> y - padding,
         width |-> size + (padding * 2), height |-> size + (padding * 2),
         fillStyle |-> backgroundColor])]

\* drawLogoBackground: the shape filled under the logo
DrawLogoBackground(canvas, x, y, size, padding, backgroundColor, patternStyle) ==
    LET shape ==
            IF patternStyle = "dots"
            THEN [op |-> "arc", centerX |-> x + size \div 2,
                  centerY |-> y + size \div 2,
                  radius |-> (size + padding * 2) \div 2,
                  fillStyle |-> backgroundColor]
            ELSE IF patternStyle = "rounded"
            THEN [op |-> "roundedRect", x |-> x - padding, y |-> y - padding,
                  right |-> x + size + padding, bottom |-> y + size + padding,
                  borderRadius |-> ((size + padding * 2) * 2) \div 10,
                  fillStyle |-> backgroundColor]
            ELSE [op |-> "fillRect", x |-> x - padding, y |-> y - padding,
                  width |-> size + (padding * 2), height |-> size + (padding * 2),
                  fillStyle |-> backgroundColor]
    IN  [canvas EXCEPT !.layers = Append(@, shape)]

\* drawLogo without the aspect-ratio branches: the image stretched over the box
DrawLogoSquare(canvas, image, x, y, maxSize) ==
    [canvas EXCEPT !.layers = Append(@,
        [op |-> "logo", x |-> x, y |-> y, width |-> maxSize, height |-> maxSize])]

\* aspectRatio = image.width / image.height is compared with 1 and applied
\* as a quotient of the two integer sides
DrawLogo(canvas, image, x, y, maxSize) ==
    LET width == IF image.width < image.height
                 THEN (maxSize * image.width) \div image.height ELSE maxSize
        height == IF image.width > image.height
                  THEN (maxSize * image.height) \div image.width ELSE maxSize
        offsetX == (maxSize - width) \div 2
        offsetY == (maxSize - height) \div 2
    IN  [canvas EXCEPT !.layers = Append(@,
            [op |-> "logo", x |-> x + offsetX, y |-> y + offsetY,
             width |-> width, height |-> height])]

\* a variant that draws on the canvas it was given
OverlayTargetInPlace(version) == "gen"

\* the canvas addLogoOverlay draws on and returns
OverlayTarget(version) == IF version = "own" THEN "out" ELSE "proc"

\* addLogoOverlay between its argument check and its await: the target canvas
\* sized and cleared, the base copied onto it, the image load started
OverlayPrepare(o) ==
    LET qrCanvas == o.heap[o.base]
        target == OverlayTarget(o.version)
        sized == IF o.version = "own"
                 THEN Resize(CreatedCanvas, qrCanvas.width, qrCanvas.height)
                 ELSE Resize(o.heap[target], qrCanvas.width, qrCanvas.height)
    IN  [o EXCEPT !.pc = "loading",
                  !.target = target,
                  !.created = IF o.version = "own" THEN {target} ELSE {},
                  !.touched = {target},
                  !.heap = [id \in DOMAIN o.heap \cup {target} |->
                               IF id = target THEN DrawImage(sized, o.base)
                               ELSE o.heap[id]],
                  !.loads = @ + 1]

\* a variant that looks at the logo source only once the target is prepared
AddLogoOverlayLateCheck(o) ==
    IF Falsy(o.base)
    THEN [o EXCEPT !.pc = "thrown"]
    ELSE [OverlayPrepare(o) EXCEPT !.pc = IF Falsy(o.logoSrc) THEN "thrown" ELSE @]

\* addLogoOverlay up to its await: the argument check, then the preparation
AddLogoOverlayStart(o) ==
    IF Falsy(o.base) \/ Falsy(o.logoSrc)
    THEN [o EXCEPT !.pc = "thrown"]
    ELSE OverlayPrepare(o)

\* addLogoOverlay after the image loaded
AddLogoOverlayFinish(o, logoImage) ==
    LET qrCanvas == o.heap[o.base]
        logoSize == (qrCanvas.width * o.options.logoSizePercent) \div 100
        logoX == (qrCanvas.width - logoSize) \div 2
        logoY == (qrCanvas.height - logoSize) \div 2
        masked == DrawLogoBackground(o.heap[o.target], logoX, logoY, logoSize,
                                     o.options.padding * Unit,
                                     o.options.backgroundColor,
                                     o.options.patternStyle)
        drawn == DrawLogo(masked, logoImage, logoX, logoY, logoSize)
    IN  [o EXCEPT !.pc = "resolved",
                  !.image = logoImage,
                  !.heap[o.target] = drawn,
                  !.result = o.target]

OverlayOptions ==
    [logoSizePercent : LogoSizePercents, padding : Paddings,
     backgroundColor : BackgroundColors, patternStyle : StyleValues]

OverlayInit ==
    /\ Page(0)
    /\ libs.gifuct /\ libs.GIF
    /\ tn = NoRun
    /\ rc = NoRender
    /\ pg = NoProgress
    /\ fl = NoFrames
    /\ \E version \in Versions, base \in {NoValue, "gen"}, px \in BaseSizes,
          logoSrc \in LogoSources, options \in OverlayOptions,
          proc \in ProcessorCanvases :
          LET heap == [id \in {"gen", "proc"} |->
                          IF id = "gen" THEN BaseCanvas(px) ELSE proc]
          IN  ov = [pc |-> "ready", version |-> version, base |-> base,
                    logoSrc |-> logoSrc, options |-> options, image |-> NULL,
                    heap |-> heap, before |-> heap, target |-> NoValue,
                    created |-> {}, touched |-> {}, loads |-> 0,
                    result |-> NoValue]

OverlayUnchanged ==
    UNCHANGED <<ui, loading, updateTimeout, app, currentCanvas, display,
                genCanvas, inv, upl, libs, notice, called, lastDone, tn, rc,
                pg, fl, events>>

OverlayCall ==
    /\ ov.pc = "ready"
    /\ ov' = AddLogoOverlayStart(ov)
    /\ OverlayUnchanged

OverlayLoaded ==
    /\ ov.pc = "loading"
    /\ \E logoImage \in LogoImages : ov' = AddLogoOverlayFinish(ov, logoImage)
    /\ OverlayUnchanged

OverlayLoadFailed ==
    /\ ov.pc = "loading"
    /\ ov' = [ov EXCEPT !.pc = "rejected"]
    /\ OverlayUnchanged

OverlayNext == OverlayCall \/ OverlayLoaded \/ OverlayLoadFailed

SpecOverlay == OverlayInit /\ [][OverlayNext]_vars

\* ------------------------------ generateAnimatedQR: the progress messages
\* One run of generateAnimatedQR, reduced to the messages it hands to
\* showLoadingMessage.  A report is the fraction the message shows: frame
\* i + 1 of n, or the percentage of the encoder's progress event.

MaxGifFrames == 5

FrameReport(i, n) == [kind |-> "frame", num |-> i + 1, den |-> n]

\* Math.round(progress * 100) for progress = k / n
EncodingReport(k, n) ==
    [kind |-> "encoding", num |-> (200 * k + n) \div (2 * n), den |-> 100]

\* the frame loop: the message of the next frame and the await of its
\* overlay, or the end of the loop and createAnimatedGIF
ProgressLoop(o) ==
    IF o.i >= o.n
    THEN [o EXCEPT !.pc = "encoding"]
    ELSE [o EXCEPT !.pc = "frameLoad",
                   !.reports = Append(@, FrameReport(o.i, o.n))]

ProgressInit ==
    /\ Page(0)
    /\ libs.gifuct /\ libs.GIF
    /\ tn = NoRun
    /\ rc = NoRender
    /\ ov = NoOverlay
    /\ fl = NoFrames
    /\ \E n \in 1..MaxGifFrames :
          pg = [pc |-> "decoding", n |-> n, i |-> 0, finished |-> 0,
                started |-> FALSE, reports |-> <<>>]

ProgressUnchanged ==
    UNCHANGED <<ui, loading, updateTimeout, app, currentCanvas, display,
                genCanvas, inv, upl, libs, notice, called, lastDone, tn, rc,
                ov, fl, events>>

\* parseGIF resolved with n frames
ProgressDecoded ==
    /\ pg.pc = "decoding"
    /\ pg' = ProgressLoop(pg)
    /\ ProgressUnchanged

\* addLogoOverlay resolved for frame i
ProgressFrameLoaded ==
    /\ pg.pc = "frameLoad"
    /\ pg' = ProgressLoop([pg EXCEPT !.i = @ + 1])
    /\ ProgressUnchanged

\* the encoder's 'progress' event: at the start of the rendering with 0, if
\* the library reports its start, then once per finished frame
ProgressEvent ==
    /\ pg.pc = "encoding"
    /\ \/ /\ ~pg.started /\ pg.finished = 0
          /\ pg' = [pg EXCEPT !.started = TRUE,
                              !.reports = Append(@, EncodingReport(0, pg.n))]
       \/ /\ pg.finished < pg.n
          /\ pg' = [pg EXCEPT !.started = TRUE,
                              !.finished = @ + 1,
                              !.reports = Append(@, EncodingReport(pg.finished + 1, pg.n))]
    /\ ProgressUnchanged

\* the encoder's 'finished' event, after the last frame
ProgressFinished ==
    /\ pg.pc = "encoding"
    /\ pg.finished = pg.n
    /\ pg' = [pg EXCEPT !.pc = "done"]
    /\ ProgressUnchanged

\* a rejected overlay, or the encoder's 'error' event: the catch block
ProgressFailed ==
    /\ pg.pc \in {"frameLoad", "encoding"}
    /\ pg' = [pg EXCEPT !.pc = "failed"]
    /\ ProgressUnchanged

ProgressNext ==
    \/ ProgressDecoded
    \/ ProgressFrameLoaded
    \/ ProgressEvent
    \/ ProgressFinished
    \/ ProgressFailed

SpecProgress == ProgressInit /\ [][ProgressNext]_vars

\* ---------------------------------- generateAnimatedQR: the canvas objects
\* The frame loop of one generateAnimatedQR run, with the canvases as
\* objects: the generator's canvas, the processor's own, and the canvas
\* created by the addLogoOverlay call of each frame.  A
\* render is tagged with the invocation it was made for; the composite of a
\* frame holds the render it copied and the frame drawn on it.

GenCanvas == <<"gen", 0>>
ProcCanvas == <<"proc", 0>>

Rendered(who) == [qr |-> who, frame |-> 0]

\* What decompressFrames reports as the delay of a frame: none, or a number
\* of milliseconds, which may be 0.
NoDelay == [given |-> FALSE, ms |-> 0]
Delay(ms) == [given |-> TRUE, ms |-> ms]
SourceDelays == {NoDelay, Delay(0), Delay(40)}

\* parseGIF: delay: frame.delay || 100
FrameDelay(d) == IF ~d.given \/ d.ms = 0 THEN DefaultDelay ELSE d.ms

\* createAnimatedGIF: delay: delays[index] || 100
AddFrameDelay(ms) == IF ms = 0 THEN DefaultDelay ELSE ms

\* addLogoOverlay returning the processor's canvas for every frame
FrameTargetShared(o) == ProcCanvas

\* addLogoOverlay creates the canvas it returns
FrameTarget(o) == <<"out", o.i + 1>>

\* the frame loop: generate(config) on the generator's canvas and
\* addLogoOverlay up to its await, or, after the last frame,
\* createAnimatedGIF, whose addFrame copies each canvas
FrameLoop(o) ==
    IF o.i >= o.n
    THEN [o EXCEPT !.pc = "encoding",
                   !.gifFrames = [k \in 1..Len(o.qrCanvases) |-> o.heap[o.qrCanvases[k]]],
                   !.gifDelays = [k \in 1..Len(o.qrCanvases) |-> AddFrameDelay(o.delays[k])]]
    ELSE LET target == FrameTarget(o)
         IN  [o EXCEPT !.pc = "frameLoad",
                       !.target = target,
                       !.heap = [id \in DOMAIN o.heap \cup {target} |->
                                    IF id = GenCanvas THEN Rendered("own")
                                    ELSE IF id = target THEN Rendered("own")
                                    ELSE o.heap[id]]]

FramesInit ==
    /\ Page(0)
    /\ libs.gifuct /\ libs.GIF
    /\ tn = NoRun
    /\ rc = NoRender
    /\ ov = NoOverlay
    /\ pg = NoProgress
    /\ \E n \in 1..MaxGifFrames, gen, proc \in {Rendered("none"), Rendered("other")} :
       \E raw \in [1..n -> SourceDelays] :
          fl = [pc |-> "decoding", n |-> n, i |-> 0, target |-> GenCanvas,
                heap |-> [id \in {GenCanvas, ProcCanvas} |->
                             IF id = GenCanvas THEN gen ELSE proc],
                raw |-> raw, frames |-> <<>>, delays |-> <<>>,
                qrCanvases |-> <<>>, gifFrames |-> <<>>, gifDelays |-> <<>>]

FramesUnchanged ==
    UNCHANGED <<ui, loading, updateTimeout, app, currentCanvas, display,
                genCanvas, inv, upl, libs, notice, called, lastDone, tn, rc,
                ov, pg, events>>

\* parseGIF resolved with one frame, and one delay, per decoded frame
FramesDecoded ==
    /\ fl.pc = "decoding"
    /\ fl' = FrameLoop([fl EXCEPT !.frames = [k \in 1..fl.n |-> FrameDelay(fl.raw[k])]])
    /\ FramesUnchanged

\* the frame's image loaded: mask and frame are drawn on the target, the
\* target and the frame's delay are collected and the loop goes on
FramesLoaded ==
    /\ fl.pc = "frameLoad"
    /\ fl' = FrameLoop([fl EXCEPT !.heap[fl.target].frame = fl.i + 1,
                                  !.qrCanvases = Append(@, fl.target),
                                  !.delays = Append(@, fl.frames[fl.i + 1]),
                                  !.i = @ + 1])
    /\ FramesUnchanged

\* the frame's image failed to load: the catch block
FramesFailed ==
    /\ fl.pc = "frameLoad"
    /\ fl' = [fl EXCEPT !.pc = "failed"]
    /\ FramesUnchanged

\* another generateQR invocation renders on the generator's canvas while
\* this one awaits a frame's image or the encoder
FramesOtherRender ==
    /\ fl.pc \in {"frameLoad", "encoding"}
    /\ fl.heap[GenCanvas] # Rendered("other")
    /\ fl' = [fl EXCEPT !.heap[GenCanvas] = Rendered("other")]
    /\ FramesUnchanged

FramesNext ==
    \/ FramesDecoded
    \/ FramesLoaded
    \/ FramesFailed
    \/ FramesOtherRender

SpecFrames == FramesInit /\ [][FramesNext]_vars

\* ------------------------------------------- calculateTypeNumber alone

\* Text lengths around every capacity step of every level, and short texts.
MaxShortText == 40

ProbeTexts ==
    (0..MaxShortText)
    \cup { Capacity(t, level) + d : t \in 1..MaxTypeNumber, level \in Levels, d \in {0, 1} }

TypeInit ==
    /\ Page(0)
    /\ rc = NoRender
    /\ ov = NoOverlay
    /\ pg = NoProgress
    /\ fl = NoFrames
    /\ \E text \in ProbeTexts, level \in Levels :
          tn = [NoRun EXCEPT !.pc = "ready", !.text = text, !.level = level]

\* calculateTypeNumber is called on the inputs.
TypeFirst ==
    /\ tn.pc = "ready"
    /\ tn' = [tn EXCEPT !.pc = "once",
                        !.first = CalculateTypeNumber(tn.text, tn.level)]
    /\ UNCHANGED <<ui, loading, updateTimeout, app, currentCanvas, display,
                   genCanvas, inv, upl, libs, notice, called, lastDone, rc, ov, pg, fl, events>>

\* calculateTypeNumber is called again on the same inputs.
TypeSecond ==
    /\ tn.pc = "once"
    /\ tn' = [tn EXCEPT !.pc = "twice",
                        !.second = CalculateTypeNumber(tn.text, tn.level)]
    /\ UNCHANGED <<ui, loading, updateTimeout, app, currentCanvas, display,
                   genCanvas, inv, upl, libs, notice, called, lastDone, rc, ov, pg, fl, events>>

TypeNext == TypeFirst \/ TypeSecond

SpecType == TypeInit /\ [][TypeNext]_vars

\* --------------------------------------------------------------- claims

InFlight(p) == inv[p].pc # "idle"

\* Some type number in 1..40 holds the config's text at its level.
Fits(config) ==
    \E t \in 1..MaxTypeNumber : QrMake(t, config.errorCorrection, config.text)

InputErrors == {"Please enter a URL or text", "Text is too long"}

\* C1: generateQR takes the animated path if and only if the logo that is
\* active when it is called is an uploaded GIF; a still image, a preset
\* icon or no logo takes the static path.
C1_AnimatedIffGifLogo ==
    /\ \A p \in Slots :
          InFlight(p) => (inv[p].path = "animated" <=> inv[p].logo0.kind = "gif")
    /\ lastDone.path \in {"static", "animated"}
          => (lastDone.path = "animated" <=> lastDone.logo0.kind = "gif")

\* C2: after a failure of generateAnimatedQR, generateStaticQR is
\* run exactly once with the same config and with the logo the generation
\* started with.
C2_FallbackUsesOriginalLogo ==
    /\ \A p \in Slots :
          (InFlight(p) /\ inv[p].fallback)
             => /\ inv[p].staticCalls = 1
                /\ inv[p].staticConfig = inv[p].config
                /\ inv[p].staticLogo = inv[p].logo0
    /\ lastDone.fallback
          => /\ lastDone.staticCalls = 1
             /\ lastDone.staticConfig = lastDone.config
             /\ lastDone.staticLogo = lastDone.logo0

\* C3 (as stated): every invocation that entered the animated pipeline ends
\* with a QR result on display.
C3_AnimatedAlwaysDisplays ==
    lastDone.path = "animated" => lastDone.shown # "none"

\* C3 (amended): every invocation that enters the animated pipeline ends,
\* and it ends with a QR result displayed (animated or static) exactly when
\* some type number holds its text at its level; otherwise it ends in the
\* catch block of generateQR with nothing displayed by it.
C3_AnimatedEndsDisplayedIfFits ==
    /\ [](lastDone.path = "animated"
             => /\ lastDone.shown # "none" <=> Fits(lastDone.config)
                /\ lastDone.shown = "none" <=> lastDone.caught)
    /\ \A p \in Slots :
          (InFlight(p) /\ inv[p].path = "animated") ~> ~InFlight(p)

\* C3 witness: an animated generation whose encoding failed has ended with
\* a static result on display.
C3_Witness ==
    /\ lastDone.path = "animated"
    /\ lastDone.fallback
    /\ lastDone.shown = "static"
    /\ Len(RawFrames(lastDone.logo0)) > 0
    /\ libs.gifuct /\ libs.GIF

\* C4: when the encoder is started, and until its output is read back, it
\* holds as many frames as parseGIF returned, in parseGIF's order, each with
\* the delay parseGIF returned for it, which is the delay the GIF gives the
\* frame when it gives one.
C4_FramesAndDelaysPreserved ==
    \A p \in Slots :
       inv[p].pc \in {"encoding", "blobRead"}
          => LET decoded == ParseGIF(inv[p].logo0, libs).frames
                 raw == RawFrames(inv[p].logo0)
             IN  /\ Len(inv[p].gifFrames) = Len(decoded)
                 /\ Len(inv[p].frames) = Len(decoded)
                 /\ \A k \in 1..Len(decoded) :
                       /\ inv[p].gifFrames[k].delay = decoded[k].delay
                       /\ raw[k].delay # 0 => inv[p].gifFrames[k].delay = raw[k].delay
                       /\ inv[p].gifFrames[k].surface.logo = FrameDataURL(decoded[k])
                       /\ inv[p].gifFrames[k].surface.config = inv[p].config

\* C4 witness: the encoder runs on a GIF of several frames.
C4_Witness ==
    \E p \in Slots : inv[p].pc = "encoding" /\ Len(inv[p].gifFrames) >= 2

\* C5: at most one generateQR invocation is in flight at any time.
C5_AtMostOneInFlight ==
    Cardinality({p \in Slots : InFlight(p)}) <= 1

\* C6: once no invocation is in flight, the page shows the result of the
\* invocation that returned last, rendered from that invocation's config and
\* carrying its logo or none.
C6_DisplayIsLastFinished ==
    (\A p \in Slots : ~InFlight(p))
       => /\ lastDone.shown = "static"
             => /\ display.kind = "canvas"
                /\ display.content.config = lastDone.config
                /\ display.content.logo \in {lastDone.staticLogo, NULL}
          /\ lastDone.shown = "animated"
             => /\ display.kind = "gif"
                /\ \A k \in 1..Len(display.content.frames) :
                      display.content.frames[k].surface.config = lastDone.config

\* C8: generateQR accepts the text iff its trimmed length is in 1..2953; a
\* rejected call shows the validation error and changes neither the display
\* nor any canvas, and starts nothing.
C8_Step ==
    /\ called' # "none"
          => (called' = "accepted"
                <=> (Trim(ui'.qrInput) >= 1 /\ Trim(ui'.qrInput) <= 2953))
    /\ called' = "rejected"
          => /\ notice' \in InputErrors
             /\ display' = display
             /\ currentCanvas' = currentCanvas
             /\ genCanvas' = genCanvas
             /\ inv' = inv

C8_ValidationBoundary == [][C8_Step]_vars

\* C8 witness: with a QR code on display, a text of 2954 characters was
\* rejected.
C8_Witness ==
    /\ called = "rejected"
    /\ ui.qrInput.core = 2954
    /\ display.kind = "canvas"

\* C9: a generateQR call whose text fits no type number at its level ends in
\* the catch block of generateQR: the generator's canvas, the display and
\* the displayed canvas reference are as before, and the error is shown.
C9_Step ==
    (called' = "accepted" /\ ~Fits(GetConfig(ui')))
       => /\ genCanvas' = genCanvas
          /\ display' = display
          /\ currentCanvas' = currentCanvas
          /\ inv' = inv
          /\ notice' = "Failed to generate QR code"
          /\ lastDone'.caught
          /\ lastDone'.shown = "none"

C9_OverflowFailsBeforeRender == [][C9_Step]_vars

\* C9 witness: with a QR code on display, a valid text that fits no type
\* number at level H was refused by generate.
C9_Witness ==
    /\ called = "accepted"
    /\ lastDone.caught
    /\ ~Fits(GetConfig(ui))
    /\ display.kind = "canvas"

\* The type numbers at which encoding the text at the level succeeds.
FittingTypes(text, level) == {t \in 1..MaxTypeNumber : QrMake(t, level, text)}

\* C7: calculateTypeNumber returns the smallest type number in 1..40 at
\* which the text fits, after as many attempts as that number; it returns 10
\* after 40 attempts when no type number fits; it never makes more than 40
\* attempts, and a second call on the same inputs returns the same.
C7_MinimalTypeNumber ==
    tn.pc \in {"once", "twice"}
       => LET fits == FittingTypes(tn.text, tn.level) IN
          /\ fits # {}
                => /\ tn.first.typeNumber \in fits
                   /\ \A t \in fits : tn.first.typeNumber <= t
                   /\ tn.first.attempts = tn.first.typeNumber
          /\ fits = {}
                => /\ tn.first.typeNumber = 10
                   /\ tn.first.attempts = 40
          /\ tn.first.attempts <= 40
          /\ tn.pc = "twice" => tn.second = tn.first

\* C7 witness: a text that fits type 2 and not type 1 got type 2, twice.
C7_Witness ==
    /\ tn.pc = "twice"
    /\ ~QrMake(1, tn.level, tn.text)
    /\ QrMake(2, tn.level, tn.text)
    /\ tn.first.typeNumber = 2
    /\ tn.second.typeNumber = 2

\* The cell <<column, row>> of the canvas is the cell of a dark module.
IsDarkCell(c) ==
    <<c[2] - rc.options.margin, c[1] - rc.options.margin>> \in rc.qr.dark

\* C10: after renderToCanvas, whatever the canvas held, the canvas has
\* moduleCount + 2 * margin cells a side; every cell that is not the cell of
\* a dark module, quiet zone included, bears no foreground ink and is
\* transparent when transparentBackground is set and background-coloured
\* otherwise; the cell of a dark module bears its ink on top of the same
\* ground, so the background was filled before the modules were drawn.
C10_NonDarkCellsUntouched ==
    rc.pc = "rendered"
       => LET ground == IF rc.options.transparentBackground
                        THEN "clear" ELSE "background"
          IN  /\ rc.canvas.total = rc.qr.moduleCount + 2 * rc.options.margin
              /\ DOMAIN rc.canvas.paint = Grid(rc.canvas.total)
              /\ \A c \in Grid(rc.canvas.total) :
                    /\ rc.canvas.paint[c].base = ground
                    /\ IsDarkCell(c) <=> rc.canvas.paint[c].ink # "none"

\* C10 witness: dots were rendered on a coloured background over a used
\* canvas, with a quiet zone, dark and light modules.
C10_Witness ==
    /\ rc.pc = "rendered"
    /\ rc.options.style = "dots"
    /\ ~rc.options.transparentBackground
    /\ rc.options.margin > 0
    /\ rc.qr.dark # {}
    /\ \E c \in Grid(rc.canvas.total) :
          ~IsDarkCell(c) /\ c[1] >= rc.options.margin /\ c[2] >= rc.options.margin
             /\ c[1] < rc.options.margin + rc.qr.moduleCount
             /\ c[2] < rc.options.margin + rc.qr.moduleCount

\* The square of side CellSize whose origin is the origin of cell <<column, row>>.
CellSquare(c) ==
    [kind |-> "rect", x |-> c[1] * CellSize, y |-> c[2] * CellSize,
     w |-> CellSize, h |-> CellSize]

\* C11: with style squares (and with any style that is neither dots nor
\* rounded) the filled shapes are exactly the cell squares of the dark
\* modules, at ((col + margin) * cellSize, (row + margin) * cellSize) with
\* side cellSize; every dark module's cell is filled wholly and no other
\* cell bears ink; two filled squares never share area, and those of
\* neighbouring modules share an edge.
C11_SquaresTileDarkCells ==
    (rc.pc = "rendered" /\ rc.options.style \notin {"dots", "rounded"})
       => /\ rc.canvas.paths =
                { CellSquare(<<m[2] + rc.options.margin, m[1] + rc.options.margin>>) :
                  m \in rc.qr.dark }
          /\ \A c \in Grid(rc.canvas.total) :
                rc.canvas.paint[c].ink = IF IsDarkCell(c) THEN "full" ELSE "none"
          /\ \A a, b \in rc.canvas.paths :
                a # b => \/ a.x + a.w <= b.x \/ b.x + b.w <= a.x
                         \/ a.y + a.h <= b.y \/ b.y + b.h <= a.y
          /\ \A m, n \in rc.qr.dark :
                (m[1] = n[1] /\ n[2] = m[2] + 1)
                   => (m[2] + rc.options.margin) * CellSize + CellSize
                         = (n[2] + rc.options.margin) * CellSize

\* C11 witness: squares were rendered for a matrix with two dark modules
\* side by side and a light one, inside a quiet zone.
C11_Witness ==
    /\ rc.pc = "rendered"
    /\ rc.options.style = "squares"
    /\ rc.options.margin > 0
    /\ \E m, n \in rc.qr.dark : m[1] = n[1] /\ n[2] = m[2] + 1
    /\ Cardinality(rc.qr.dark) < rc.qr.moduleCount * rc.qr.moduleCount

\* C12: with style dots the filled shapes are exactly one circle per dark
\* module, centred at ((col + margin + 0.5) * cellSize, (row + margin + 0.5)
\* * cellSize) with radius 0.45 * cellSize; every circle lies inside its own
\* cell, and the circles of two horizontally or vertically adjacent dark
\* modules are at least 0.1 * cellSize apart.
C12_DotsGeometry ==
    (rc.pc = "rendered" /\ rc.options.style = "dots")
       => LET margin == rc.options.margin
              Dot(m) == [kind |-> "circle",
                         cx |-> (m[2] + margin) * CellSize + CellSize \div 2,
                         cy |-> (m[1] + margin) * CellSize + CellSize \div 2,
                         r |-> DotRadius]
          IN  /\ rc.canvas.paths = { Dot(m) : m \in rc.qr.dark }
              /\ \A m \in rc.qr.dark :
                    /\ 2 * Dot(m).cx = (2 * (m[2] + margin) + 1) * CellSize
                    /\ 2 * Dot(m).cy = (2 * (m[1] + margin) + 1) * CellSize
                    /\ 100 * Dot(m).r = 45 * CellSize
                    /\ Dot(m).cx - Dot(m).r >= (m[2] + margin) * CellSize
                    /\ Dot(m).cx + Dot(m).r <= (m[2] + margin + 1) * CellSize
                    /\ Dot(m).cy - Dot(m).r >= (m[1] + margin) * CellSize
                    /\ Dot(m).cy + Dot(m).r <= (m[1] + margin + 1) * CellSize
              /\ \A m, n \in rc.qr.dark :
                    /\ (m[1] = n[1] /\ n[2] = m[2] + 1)
                          => 10 * ((Dot(n).cx - Dot(n).r) - (Dot(m).cx + Dot(m).r)) >= CellSize
                    /\ (m[2] = n[2] /\ n[1] = m[1] + 1)
                          => 10 * ((Dot(n).cy - Dot(n).r) - (Dot(m).cy + Dot(m).r)) >= CellSize
              /\ \A c \in Grid(rc.canvas.total) :
                    rc.canvas.paint[c].ink = IF IsDarkCell(c) THEN "part" ELSE "none"

\* C12 witness: dots were rendered for a matrix with two dark modules side
\* by side and two one above the other.
C12_Witness ==
    /\ rc.pc = "rendered"
    /\ rc.options.style = "dots"
    /\ \E m, n \in rc.qr.dark : m[1] = n[1] /\ n[2] = m[2] + 1
    /\ \E m, n \in rc.qr.dark : m[2] = n[2] /\ n[1] = m[1] + 1

\* C13: whatever the generator's canvas held before the call, the surface
\* renderToCanvas leaves is the one it leaves on a new canvas for the same
\* matrix and options, so two calls with the same matrix and options give
\* the same surface; all ink on it has the call's foreground colour.
C13_RenderIndependentOfHistory ==
    rc.pc = "rendered"
       => /\ rc.canvas = RenderToCanvas(NewCanvas, rc.qr, rc.options)
          /\ \A c \in DOMAIN rc.canvas.paint :
                rc.canvas.paint[c].ink # "none"
                   => rc.canvas.paint[c].colour = rc.options.foregroundColor

\* C13 witness: a matrix was rendered transparently, with squares, a quiet
\* zone and one colour, on a canvas that held larger dots of the other colour
\* on a coloured ground.
C13_Witness ==
    /\ rc.pc = "rendered"
    /\ rc.before.total > rc.qr.moduleCount
    /\ rc.before.paths # {}
    /\ \E c \in DOMAIN rc.before.paint :
          /\ rc.before.paint[c].base = "background"
          /\ rc.before.paint[c].colour # rc.options.foregroundColor
    /\ rc.options.transparentBackground
    /\ rc.options.style = "squares"
    /\ rc.options.margin > 0
    /\ rc.qr.dark # {}

\* C14: addLogoOverlay never draws on the surface it is given: once the call
\* has passed its argument check, the base surface keeps its size and its
\* pixels whether the logo loads or fails to load, and the surface returned
\* on success is another object than the base.  Both definitions of
\* addLogoOverlay are covered.
C14_OverlayLeavesBaseUntouched ==
    ov.pc \in {"loading", "resolved", "rejected"}
       => /\ ov.heap[ov.base] = ov.before[ov.base]
          /\ ov.target # ov.base
          /\ ov.pc = "resolved"
                => /\ ov.result # ov.base
                   /\ ov.result = ov.target
                   /\ Len(ov.heap[ov.result].layers) = 3

C14_Witness ==
    /\ ov.pc = "resolved"
    /\ ov.version = "shared"
    /\ ov.heap[ov.result] # ov.before[ov.result]
    /\ ov.heap["gen"] = ov.before["gen"]

C17_LogoKeepsAspectRatio ==
    ov.pc = "resolved"
       => LET l == ov.heap[ov.result].layers[3]
              W == ov.before[ov.base].width
              H == ov.before[ov.base].height
              logoSize == (W * ov.options.logoSizePercent) \div 100
              logoX == (W - logoSize) \div 2
              logoY == (H - logoSize) \div 2
              w == ov.image.width
              h == ov.image.height
              longer == IF l.width >= l.height THEN l.width ELSE l.height
              shorter == IF l.width >= l.height THEN l.height ELSE l.width
          IN  /\ l.op = "logo"
              /\ longer = logoSize
              /\ shorter * (IF w >= h THEN w ELSE h)
                    = logoSize * (IF w >= h THEN h ELSE w)
              /\ w >= h => l.width = logoSize
              /\ h >= w => l.height = logoSize
              /\ l.width * h = l.height * w
              /\ 2 * (l.x - logoX) + l.width = logoSize
              /\ 2 * (l.y - logoY) + l.height = logoSize
              /\ l.x >= logoX /\ l.x + l.width <= logoX + logoSize
              /\ l.y >= logoY /\ l.y + l.height <= logoY + logoSize
              /\ w = 2 * h => l.width = logoSize /\ 2 * l.height = logoSize

C17_Witness ==
    /\ ov.pc = "resolved"
    /\ ov.image = [width |-> 200, height |-> 100]
    /\ ov.before["gen"].width = 300 * Unit
    /\ ov.options.logoSizePercent = 25
    /\ ov.heap[ov.result].layers[3].width = 75000
    /\ ov.heap[ov.result].layers[3].height = 37500

\* C18: addLogoOverlay called without a base surface or without a logo
\* source fails before any drawing: the call ends in an error, no surface
\* has been created, resized, cleared or drawn on, and no image load has
\* been started.
C18_MissingInputFailsFirst ==
    (/\ ov.pc \notin {"idle", "ready"}
     /\ Falsy(ov.base) \/ Falsy(ov.logoSrc))
       => /\ ov.pc = "thrown"
          /\ ov.heap = ov.before
          /\ ov.created = {}
          /\ ov.touched = {}
          /\ ov.loads = 0
          /\ ov.result = NoValue

C18_Witness ==
    /\ ov.pc = "thrown"
    /\ ov.base = "gen"
    /\ ov.logoSrc = NoValue
    /\ ov.version = "shared"
    /\ ov.heap["proc"] = ov.before["proc"]

\* C19: in the static path, when the logo image fails to load, the
\* generation still completes: the invocation returns without an error
\* reaching generateQR, the page shows the QR surface rendered for that
\* request's configuration, with no mask and no logo, and the notice of the
\* step is the non-fatal "Failed to add logo".
C19_Step ==
    notice' = "Failed to add logo"
       => /\ lastDone'.shown = "static"
          /\ ~lastDone'.caught
          /\ ~loading'
          /\ display'.kind = "canvas"
          /\ display'.content.mask = "none"
          /\ display'.content.logo = NULL
          /\ display'.content = Generate(lastDone'.staticConfig).surface

C19_LoadFailureShowsOwnQR == [][C19_Step]_vars

\* Both GIF libraries are present on the page.
LibsLoaded == libs.gifuct /\ libs.GIF

\* With a library absent, an invocation on the animated path has decoded
\* nothing, rendered and collected no frame and started no encoder: it is in
\* the static run of the catch block, awaiting the logo's load.
NoAnimatedWork ==
    \A p \in Slots :
       inv[p].path = "animated"
          => /\ inv[p].pc = "staticLoad"
             /\ inv[p].fallback
             /\ inv[p].staticCalls = 1
             /\ inv[p].staticConfig = inv[p].config
             /\ inv[p].frames = <<>>
             /\ inv[p].i = 0
             /\ inv[p].qrCanvases = <<>>
             /\ inv[p].delays = <<>>
             /\ inv[p].gifFrames = <<>>
             /\ inv[p].blob = NULL

\* C20 (as stated): when the GIF decode library or the GIF encode library is
\* absent, generateAnimatedQR invokes neither the decoder nor the encoder and
\* renders no per-frame surface, and the generation ends with a static QR
\* result and an error notice, no error reaching generateQR.
C20_LibsAbsentEndsStatic ==
    ~LibsLoaded
       => /\ NoAnimatedWork
          /\ lastDone.path = "animated"
                => /\ lastDone.fallback
                   /\ lastDone.shown = "static"
                   /\ ~lastDone.caught

\* The step that calls generateQR on the animated path shows an error
\* notice; the step that ends the static run displays a canvas.
C20_Step ==
    ~LibsLoaded
       => /\ (called' = "accepted" /\ app'.isAnimatedGIF /\ app'.currentLogo # NULL)
                => notice' = IF Fits(GetConfig(ui'))
                             THEN "Failed to process animated GIF"
                             ELSE "Failed to generate QR code"
          /\ \A p \in Slots :
                (inv[p].path = "animated" /\ inv'[p].pc = "idle")
                   => /\ display'.kind = "canvas"
                      /\ ~display'.content.blank
                      /\ lastDone'.shown = "static"

\* C20 (amended): when the GIF decode library or the GIF encode library is
\* absent, generateAnimatedQR invokes neither the decoder nor the encoder and
\* renders no per-frame surface; it shows an error notice and runs the static
\* generation once.  The generation ends with a static QR result when some
\* type number holds the text at the requested level; when none does, the
\* static run fails too, the error is caught by generateQR, which shows
\* "Failed to generate QR code", and nothing is displayed.
C20_LibsAbsentFallsBack ==
    /\ [](~LibsLoaded
             => /\ NoAnimatedWork
                /\ lastDone.path = "animated"
                      => /\ lastDone.fallback
                         /\ lastDone.staticCalls = 1
                         /\ IF Fits(lastDone.config)
                            THEN lastDone.shown = "static" /\ ~lastDone.caught
                            ELSE lastDone.shown = "none" /\ lastDone.caught)
    /\ [][C20_Step]_vars

C20_Witness ==
    /\ ~libs.GIF
    /\ lastDone.path = "animated"
    /\ lastDone.fallback
    /\ lastDone.shown = "static"
    /\ display.kind = "canvas"

\* C21: during one animated generation the progress values reported to the
\* user, for each frame and during the final encoding, lie in [0, 1] and
\* never decrease from one report to the next.
C21_ProgressNeverDecreases ==
    pg.pc # "idle"
       => /\ \A k \in 1..Len(pg.reports) :
                /\ pg.reports[k].num >= 0
                /\ pg.reports[k].num <= pg.reports[k].den
          /\ \A k \in 1..(Len(pg.reports) - 1) :
                pg.reports[k].num * pg.reports[k + 1].den
                   <= pg.reports[k + 1].num * pg.reports[k].den

\* C22: validateImageFile accepts a file iff its type is a supported image
\* format and its size is at most 100MB for a GIF and at most 5MB for any
\* other image; handleLogoUpload, given a rejected file, shows the errors,
\* leaves currentLogo, isAnimatedGIF and animatedGIFBlob as they were and
\* starts no generation and no read of the file.
C22_Step ==
    \A file \in Files :
       UploadChange(file)
          => IF /\ file.type \in {"image/png", "image/jpeg", "image/jpg",
                                   "image/svg+xml", "image/webp", "image/gif"}
                /\ file.size <= (IF file.type = "image/gif" THEN 104857600
                                 ELSE 5242880)
             THEN /\ upl' = [pc |-> "reading", file |-> file]
                  /\ notice' = "none"
             ELSE /\ notice' = "Invalid image file"
                  /\ app' = app
                  /\ upl' = upl
                  /\ inv' = inv
                  /\ called' = "none"
                  /\ loading' = loading
                  /\ display' = display
                  /\ genCanvas' = genCanvas
                  /\ lastDone' = lastDone

StageOf(r) ==
    CASE r.pc = "idle" -> MaxFrames + 4
      [] r.fallback -> Len(r.frames) + 3
      [] r.pc = "frameLoad" -> r.i
      [] r.pc = "encoding" -> Len(r.frames)
      [] r.pc = "blobRead" -> Len(r.frames) + 1
      [] OTHER -> 0 - 1

C23_Stages ==
    \A p \in Slots :
       inv[p].path = "animated"
          => IF inv[p].fallback
             THEN /\ inv[p].pc = "staticLoad"
                  /\ inv[p].qrCanvases = <<>>
                  /\ inv[p].gifFrames = <<>>
             ELSE /\ inv[p].pc \in {"frameLoad", "encoding", "blobRead"}
                  /\ inv[p].frames = ParseGIF(inv[p].logo0, libs).frames
                  /\ Len(inv[p].qrCanvases) = inv[p].i
                  /\ inv[p].pc = "frameLoad"
                        => /\ inv[p].i < Len(inv[p].frames)
                           /\ inv[p].logoSrc = FrameDataURL(inv[p].frames[inv[p].i + 1])
                           /\ inv[p].gifFrames = <<>>
                  /\ inv[p].pc \in {"encoding", "blobRead"}
                        => /\ inv[p].i = Len(inv[p].frames)
                           /\ Len(inv[p].gifFrames) = Len(inv[p].frames)

C23_Step ==
    \A p \in Slots :
       (inv[p].path = "animated" /\ inv'[p] # inv[p])
          => /\ StageOf(inv'[p]) > StageOf(inv[p])
                \/ inv'[p].pc = "idle"
             /\ inv[p].pc = "frameLoad" /\ inv'[p].pc = "frameLoad"
                   => inv'[p].i = inv[p].i + 1
             /\ inv'[p].pc = "idle"
                   => /\ lastDone'.path = "animated"
                      /\ lastDone'.shown = "animated"
                            => inv[p].pc = "blobRead" /\ ~lastDone'.fallback
                      /\ lastDone'.shown # "animated" => lastDone'.fallback

\* C23: one animated generation moves through Decoding, then for each frame
\* in source order Rendering followed by Compositing, then Encoding, then
\* Done, and never goes back: frame i + 1 is rendered only when the
\* composites of frames 1..i have been collected, the encoder starts only
\* with every frame composited, and after a failure no further frame is
\* processed and the encoder is not started.
C23_StagesInOrder == []C23_Stages /\ [][C23_Step]_vars

C23_Witness ==
    \E p \in Slots :
       /\ inv[p].pc = "blobRead"
       /\ ~inv[p].fallback
       /\ inv[p].i = 2
       /\ Len(inv[p].qrCanvases) = 2

\* The composite of decoded frame k with the QR code rendered for this
\* invocation.
Composite(k) == [qr |-> "own", frame |-> k]

C24_Frames ==
    fl.pc # "idle"
       => /\ \A j, k \in 1..Len(fl.qrCanvases) :
                j # k => fl.qrCanvases[j] # fl.qrCanvases[k]
          /\ \A k \in 1..Len(fl.qrCanvases) :
                /\ fl.qrCanvases[k] \notin {GenCanvas, ProcCanvas}
                /\ fl.heap[fl.qrCanvases[k]] = Composite(k)
          /\ fl.pc = "frameLoad" => fl.target \notin {fl.qrCanvases[k] : k \in 1..Len(fl.qrCanvases)}
          /\ fl.pc = "encoding"
                => /\ Len(fl.gifFrames) = fl.n
                   /\ \A k \in 1..fl.n : fl.gifFrames[k] = Composite(k)

C24_Step ==
    fl.pc # "idle"
       => \A k \in 1..Len(fl.qrCanvases) :
             /\ fl'.qrCanvases[k] = fl.qrCanvases[k]
             /\ fl'.heap[fl.qrCanvases[k]] = fl.heap[fl.qrCanvases[k]]

\* C24: in the per-frame loop no surface is shared between iterations: the
\* surface collected for frame i is not modified while a later frame is
\* rendered or composited, or while another invocation renders, so when
\* encoding starts the collected surfaces are pairwise distinct objects and
\* surface i holds the composite of the base QR with decoded frame i.
C24_FramesNotShared == []C24_Frames /\ [][C24_Step]_vars

C24_Witness ==
    /\ fl.pc = "encoding"
    /\ fl.n >= 3
    /\ fl.heap[GenCanvas] = Rendered("other")
    /\ fl.gifFrames[1] = Composite(1)
    /\ fl.gifFrames[3] = Composite(3)

\* C25: a burst of size, error-correction or colour changes, each within
\* 300 ms of the one before, leaves one timer pending and calls nothing; the
\* timer, when it fires, makes exactly one generateQR call if a QR code is
\* on display and none if not; no step that calls generateQR changes an
\* invocation that is in flight.
C25_Step ==
    /\ ui'.errorCorrection # ui.errorCorrection
          => /\ updateTimeout' = 1
             /\ called' = "none"
             /\ inv' = inv
             /\ display' = display
    /\ updateTimeout' < updateTimeout
          => /\ updateTimeout = 1
             /\ updateTimeout' = 0
             /\ called' # "none" <=> currentCanvas # NULL
             /\ Cardinality({q \in Slots : inv'[q] # inv[q]}) <= 1
    /\ called' # "none"
          => \A q \in Slots : InFlight(q) => inv'[q] = inv[q]

DecodesToNothing(logo) == logo.kind = "gif" /\ Len(RawFrames(logo)) = 0

\* C26: when decoding the animated logo yields zero frames, the generation
\* fails at decoding: it renders and composites no frame, hands nothing to
\* the encoder, and runs the static generation once from the catch block,
\* never ending with an animated result.
C26_ZeroFramesFallsBack ==
    LibsLoaded
       => /\ \A p \in Slots :
                (inv[p].path = "animated" /\ DecodesToNothing(inv[p].logo0))
                   => /\ inv[p].pc = "staticLoad"
                      /\ inv[p].fallback
                      /\ inv[p].staticCalls = 1
                      /\ inv[p].staticConfig = inv[p].config
                      /\ inv[p].i = 0
                      /\ inv[p].frames = <<>>
                      /\ inv[p].qrCanvases = <<>>
                      /\ inv[p].gifFrames = <<>>
                      /\ inv[p].blob = NULL
          /\ (lastDone.path = "animated" /\ DecodesToNothing(lastDone.logo0))
                => /\ lastDone.fallback
                   /\ lastDone.staticCalls = 1
                   /\ lastDone.shown # "animated"

\* C26 witness: a generation whose GIF decoded to nothing has ended with the
\* static result on display, both libraries being present.
C26_Witness ==
    /\ LibsLoaded
    /\ lastDone.path = "animated"
    /\ DecodesToNothing(lastDone.logo0)
    /\ lastDone.fallback
    /\ lastDone.shown = "static"

\* C27 (as stated): the delay of every frame handed to the encoder equals
\* the source frame's delay whenever the source data provides one, and is
\* 100 only when the source data provides no delay for that frame.
C27_SourceDelayKept ==
    fl.pc = "encoding"
       => \A k \in 1..fl.n :
             /\ fl.raw[k].given => fl.gifDelays[k] = fl.raw[k].ms
             /\ ~fl.raw[k].given => fl.gifDelays[k] = DefaultDelay

\* C28 (as stated): state.animatedGIFBlob is non-null only if the generation
\* that completed last was a successful animated one, and it is then the
\* GIF encoded by that generation.
C28_BlobIsLatestAnimated ==
    (app.animatedGIFBlob # NULL /\ lastDone.path # "rejected")
       => /\ lastDone.path = "animated"
          /\ lastDone.shown = "animated"
          /\ Len(app.animatedGIFBlob.frames) = Len(RawFrames(lastDone.logo0))
          /\ \A k \in 1..Len(app.animatedGIFBlob.frames) :
                app.animatedGIFBlob.frames[k].surface.config = lastDone.config

\* C29 (as stated): downloadQR exports the image on display: between any
\* two steps, where a click on the download button can run it, the surface
\* that uiController.state.currentCanvas refers to has the content of the
\* display canvas the last displayQR copied it to.
C29_DownloadIsDisplayed ==
    (currentCanvas # NULL /\ display.kind = "canvas")
       => Deref(S, currentCanvas) = display.content

\* C30 (as stated): the loading indicator shows, and the generate button is
\* disabled, exactly while some generateQR invocation has passed validation
\* and has not returned.
C30_LoadingIffInFlight ==
    loading <=> \E p \in Slots : InFlight(p)

====
